---- MODULE Spec2Model ----
(***************************************************************************)
(* BVAC -- BattleTech Vehicle Armour Calculator (BVAC_v1.4.py, v1.3).      *)
(*                                                                         *)
(* The allocator calculate_armour_distribution works on Python floats      *)
(* (IEEE-754 binary64).  The shares 0.30, 0.208, ... are not binary        *)
(* fractions, so total * share, n / 5 and share + turret_share / 4 are all *)
(* rounded to 53 significant bits before round() / math.ceil() see them.   *)
(* The model computes these operations bit for bit: a float is a sign, a   *)
(* mantissa held as a little-endian sequence of bits, and a binary         *)
(* exponent, and every operation rounds to nearest, ties to even.          *)
(***************************************************************************)
EXTENDS Integers, Sequences, FiniteSets

(***************************************************************************)
(* Bounds of the model.                                                    *)
(***************************************************************************)
MaxT == 1500
MaxTons == 1
MaxArmour == 2

(***************************************************************************)
(* Arbitrary-precision naturals.  A mantissa is a little-endian sequence   *)
(* of bits: b[1] is the least significant bit, there are no leading        *)
(* (high-order) zeros, <<>> is zero.  Carries and remainders are           *)
(* propagated over base-2^15 digits ("limbs") of the same number, so that  *)
(* every digit product stays within 32 bits.                               *)
(***************************************************************************)
Abs(n) == IF n < 0 THEN -n ELSE n
Min(a, b) == IF a < b THEN a ELSE b

LimbBits == 15
Base == 2^LimbBits

RECURSIVE NatToBits(_)
NatToBits(n) == IF n = 0 THEN <<>> ELSE <<n % 2>> \o NatToBits(n \div 2)

RECURSIVE BitsToNatFrom(_, _)
BitsToNatFrom(b, i) ==
    IF i > Len(b) THEN 0 ELSE b[i] + 2 * BitsToNatFrom(b, i + 1)
BitsToNat(b) == BitsToNatFrom(b, 1)

RECURSIVE TopBit(_, _)
TopBit(b, i) == IF i = 0 THEN 0 ELSE IF b[i] = 1 THEN i ELSE TopBit(b, i - 1)
Trim(b) == SubSeq(b, 1, TopBit(b, Len(b)))

ShiftLeft(b, n) == IF b = <<>> \/ n <= 0 THEN b ELSE [i \in 1..n |-> 0] \o b

BitsToLimbs(b) ==
    [j \in 1..((Len(b) + LimbBits - 1) \div LimbBits) |->
        BitsToNat(SubSeq(b, LimbBits * (j - 1) + 1, Min(LimbBits * j, Len(b))))]
LimbsToBits(l) ==
    Trim([i \in 1..(LimbBits * Len(l)) |->
             (l[(i - 1) \div LimbBits + 1] \div 2^((i - 1) % LimbBits)) % 2])

\* l * k for a natural k < Base, limb by limb from the low end
RECURSIVE MulLimbs(_, _, _, _)
MulLimbs(l, i, k, carry) ==
    IF i > Len(l) THEN (IF carry = 0 THEN <<>> ELSE <<carry>>)
    ELSE <<(l[i] * k + carry) % Base>>
         \o MulLimbs(l, i + 1, k, (l[i] * k + carry) \div Base)
MulSmall(b, k) == LimbsToBits(MulLimbs(BitsToLimbs(b), 1, k, 0))

LimbAt(l, i) == IF i <= Len(l) THEN l[i] ELSE 0

RECURSIVE AddLimbs(_, _, _, _)
AddLimbs(a, b, i, carry) ==
    IF i > Len(a) /\ i > Len(b) THEN (IF carry = 0 THEN <<>> ELSE <<carry>>)
    ELSE <<(LimbAt(a, i) + LimbAt(b, i) + carry) % Base>>
         \o AddLimbs(a, b, i + 1, (LimbAt(a, i) + LimbAt(b, i) + carry) \div Base)
AddBits(a, b) == LimbsToBits(AddLimbs(BitsToLimbs(a), BitsToLimbs(b), 1, 0))

\* long division of limbs i..1 of l by a natural d < Base, from the high limb
\* down, r the remainder so far: the quotient's limbs, and the last remainder
RECURSIVE DivLimbs(_, _, _, _)
DivLimbs(l, i, d, r) ==
    IF i = 0 THEN <<>>
    ELSE DivLimbs(l, i - 1, d, (r * Base + l[i]) % d)
         \o <<(r * Base + l[i]) \div d>>
RECURSIVE ModLimbs(_, _, _, _)
ModLimbs(l, i, d, r) ==
    IF i = 0 THEN r ELSE ModLimbs(l, i - 1, d, (r * Base + l[i]) % d)
DivSmallLimbs(l, d) ==
    [q |-> LimbsToBits(DivLimbs(l, Len(l), d, 0)), r |-> ModLimbs(l, Len(l), d, 0)]
DivSmall(b, d) == DivSmallLimbs(BitsToLimbs(b), d)

(***************************************************************************)
(* binary64: value = s * m * 2^x, m of at most MantBits bits.              *)
(***************************************************************************)
MantBits == 53
GuardBits == MantBits + 12

FZero == [s |-> 1, m |-> <<>>, x |-> 0]
FromInt(n) == [s |-> IF n < 0 THEN -1 ELSE 1, m |-> NatToBits(Abs(n)), x |-> 0]

\* round-to-nearest, ties-to-even of the natural b (plus a fraction in (0,1)
\* when sticky) to MantBits significant bits: b ~ m * 2^sh
RoundNearestEven(b, sticky) ==
    IF Len(b) <= MantBits THEN [m |-> b, sh |-> 0]
    ELSE LET sh   == Len(b) - MantBits
             kept == SubSeq(b, sh + 1, Len(b))
             low  == sticky \/ \E i \in 1..(sh - 1) : b[i] = 1
             up   == b[sh] = 1 /\ (low \/ kept[1] = 1)
         IN  [m |-> IF up THEN AddBits(kept, <<1>>) ELSE kept, sh |-> sh]

\* the float s * r.m * 2^(x + r.sh) of a rounding result r
MakeFloat(s, r, x) == [s |-> s, m |-> r.m, x |-> x + r.sh]

\* int * float (the int converts exactly), correctly rounded
FMulInt(k, f) ==
    IF k = 0 \/ f.m = <<>> THEN FZero
    ELSE MakeFloat(IF k < 0 THEN -f.s ELSE f.s,
                   RoundNearestEven(MulSmall(f.m, Abs(k)), FALSE), f.x)

\* float / small positive int, correctly rounded
RoundQuotient(qr) == RoundNearestEven(qr.q, qr.r # 0)
FDivInt(f, d) ==
    IF f.m = <<>> THEN FZero
    ELSE MakeFloat(f.s, RoundQuotient(DivSmall(ShiftLeft(f.m, GuardBits), d)),
                   f.x - GuardBits)

\* float + float for non-negative operands, correctly rounded
FAdd(f, g) ==
    IF f.m = <<>> THEN g
    ELSE IF g.m = <<>> THEN f
    ELSE MakeFloat(1,
                   RoundNearestEven(
                       AddBits(ShiftLeft(f.m, f.x - Min(f.x, g.x)),
                               ShiftLeft(g.m, g.x - Min(f.x, g.x))),
                       FALSE),
                   Min(f.x, g.x))

\* the decimal literal num/den, as the parser converts it (correctly rounded)
Lit(num, den) == FDivInt(FromInt(num), den)

\* exact equality of two floats as numbers
FEq(f, g) ==
    /\ (f.m = <<>>) = (g.m = <<>>)
    /\ f.m # <<>> =>
         /\ f.s = g.s
         /\ LET x == Min(f.x, g.x)
            IN  ShiftLeft(f.m, f.x - x) = ShiftLeft(g.m, g.x - x)

\* |f| split at the binary point
IntPart(f) ==
    IF f.x >= 0 THEN BitsToNat(ShiftLeft(f.m, f.x))
    ELSE BitsToNatFrom(f.m, 1 - f.x)
HalfBit(f) == f.x < 0 /\ -f.x <= Len(f.m) /\ f.m[-f.x] = 1
BelowHalf(f) == f.x < 0 /\ \E i \in 1..Min(-f.x - 1, Len(f.m)) : f.m[i] = 1
HasFraction(f) == f.x < 0 /\ \E i \in 1..Min(-f.x, Len(f.m)) : f.m[i] = 1

\* round(x): nearest integer, ties to even
PyRound(f) ==
    LET ip == IntPart(f)
        up == HalfBit(f) /\ (BelowHalf(f) \/ ip % 2 = 1)
    IN  f.s * (IF up THEN ip + 1 ELSE ip)

\* math.ceil(x)
PyCeil(f) ==
    IF f.s = 1 THEN IntPart(f) + (IF HasFraction(f) THEN 1 ELSE 0)
    ELSE -IntPart(f)

\* int(x): truncation toward zero
PyInt(f) == f.s * IntPart(f)

(***************************************************************************)
(* Dictionaries: functions on the facing names.  Python dicts iterate in   *)
(* insertion order, which for every dict of the allocator is the order of  *)
(* base_distribution with the removed keys left out.                       *)
(***************************************************************************)
FacingOrder == <<"Front", "Left Side", "Right Side", "Rear", "Turret">>
Keys(d) == SelectSeq(FacingOrder, LAMBDA loc : loc \in DOMAIN d)
Get(d, k, default) == IF k \in DOMAIN d THEN d[k] ELSE default
SetItem(d, k, v) == [loc \in DOMAIN d \cup {k} |-> IF loc = k THEN v ELSE d[loc]]
Max(a, b) == IF a > b THEN a ELSE b

RECURSIVE SumFrom(_, _, _)
SumFrom(d, keys, i) ==
    IF i > Len(keys) THEN 0 ELSE d[keys[i]] + SumFrom(d, keys, i + 1)
\* sum(d.values()) of an int-valued dict
Sum(d) == SumFrom(d, Keys(d), 1)

RECURSIVE FSumFrom(_, _, _)
FSumFrom(d, keys, i) ==
    IF i = 0 THEN FZero ELSE FAdd(FSumFrom(d, keys, i - 1), d[keys[i]])
\* sum(d.values()) of a float-valued dict: left to right, rounding each step
FSum(d) == FSumFrom(d, Keys(d), Len(Keys(d)))

\* faulty variant: the rounding to 5 left out, plain round()
round_to_nearest_5_unscaled(n) == PyRound(n)
round_to_nearest_5(n) == 5 * PyRound(FDivInt(n, 5))
\* faulty variant: Front rounded to the nearest multiple instead of upwards
round_up_to_5_nearest(n) == 5 * PyRound(FDivInt(n, 5))
round_up_to_5(n) == 5 * PyCeil(FDivInt(n, 5))

base_distribution ==
    [loc \in {"Front", "Left Side", "Right Side", "Rear", "Turret"} |->
        CASE loc = "Front"      -> Lit(30, 100)
          [] loc = "Left Side"  -> Lit(208, 1000)
          [] loc = "Right Side" -> Lit(208, 1000)
          [] loc = "Rear"       -> Lit(117, 1000)
          [] loc = "Turret"     -> Lit(167, 1000)]

\* faulty variant: the turret share divided by the number of facings before
\* the pop
DistributionPercent_fifth(rt) ==
    IF rt
    THEN [loc \in DOMAIN base_distribution \ {"Turret"} |->
             FAdd(base_distribution[loc],
                  FDivInt(base_distribution["Turret"],
                          Cardinality(DOMAIN base_distribution)))]
    ELSE base_distribution

\* lines 62-68: copy, pop Turret, add turret_share / len(...) to the others
DistributionPercent(rt) ==
    IF rt
    THEN LET turret_share == base_distribution["Turret"]
             popped == [loc \in DOMAIN base_distribution \ {"Turret"}
                            |-> base_distribution[loc]]
         IN  [loc \in DOMAIN popped |->
                 FAdd(popped[loc], FDivInt(turret_share, Cardinality(DOMAIN popped)))]
    ELSE base_distribution

RawAllocations(T, pct) == [loc \in DOMAIN pct |-> FMulInt(T, pct[loc])]

\* line 75
BasicRounding(raw) == [loc \in DOMAIN raw |-> PyRound(raw[loc])]

\* faulty variant: the pass runs over the facings from the last to the first
RECURSIVE DistributeLeftover_reversed(_, _, _, _)
DistributeLeftover_reversed(dist, keys, i, leftover) ==
    IF i > Len(keys) \/ leftover = 0 THEN dist
    ELSE DistributeLeftover_reversed(
             [dist EXCEPT ![keys[Len(keys) + 1 - i]] = @ + 1], keys, i + 1,
             leftover - 1)

\* lines 79-83: one pass over the facings, a point each while leftover lasts
RECURSIVE DistributeLeftover(_, _, _, _)
DistributeLeftover(dist, keys, i, leftover) ==
    IF i > Len(keys) \/ leftover = 0 THEN dist
    ELSE DistributeLeftover([dist EXCEPT ![keys[i]] = @ + 1], keys, i + 1,
                            leftover - 1)

\* lines 76-83
DefaultReconcile(rounded, T, pct) ==
    LET allocated == Sum(rounded)
        leftover  == T - allocated
    IN  IF leftover > 0 THEN DistributeLeftover(rounded, Keys(pct), 1, leftover)
        ELSE rounded

\* lines 86-91
CoarseRounding(raw) ==
    [loc \in DOMAIN raw |->
        IF loc = "Front" THEN round_up_to_5(raw[loc])
        ELSE round_to_nearest_5(raw[loc])]

\* faulty variant: Turret not clamped at 0
ReduceOverage_unclamped(rounded, overage) ==
    IF "Rear" \in DOMAIN rounded /\ rounded["Rear"] >= overage
    THEN [rounded EXCEPT !["Rear"] = @ - overage]
    ELSE IF "Turret" \in DOMAIN rounded
         THEN [rounded EXCEPT !["Rear"] = 0,
                              !["Turret"] = @ - (overage - rounded["Rear"])]
         ELSE [rounded EXCEPT !["Rear"] = 0]

\* faulty variant: the overage taken from Rear without the test of line 97
ReduceOverage_unguarded(rounded, overage) ==
    [rounded EXCEPT !["Rear"] = @ - overage]

\* lines 97-103
ReduceOverage(rounded, overage) ==
    IF "Rear" \in DOMAIN rounded /\ rounded["Rear"] >= overage
    THEN [rounded EXCEPT !["Rear"] = @ - overage]
    ELSE LET deficit == overage - Get(rounded, "Rear", 0)
             zeroed  == SetItem(rounded, "Rear", 0)
         IN  IF "Turret" \in DOMAIN zeroed
             THEN [zeroed EXCEPT !["Turret"] = Max(0, @ - deficit)]
             ELSE zeroed

\* faulty variant: the shortfall added to a side instead of Front
AddShortfall_side(rounded, shortfall) ==
    [rounded EXCEPT !["Left Side"] = @ + shortfall]

\* line 105
AddShortfall(rounded, shortfall) == [rounded EXCEPT !["Front"] = @ + shortfall]

\* faulty variant: no elif branch, a shortfall is left as it is
CoarseReconcile_no_shortfall(rounded, T) ==
    IF Sum(rounded) > T THEN ReduceOverage(rounded, Sum(rounded) - T)
    ELSE rounded

\* lines 93-105
CoarseReconcile(rounded, T) ==
    LET total_rounded == Sum(rounded)
    IN  IF total_rounded > T THEN ReduceOverage(rounded, total_rounded - T)
        ELSE IF total_rounded < T THEN AddShortfall(rounded, T - total_rounded)
        ELSE rounded

\* the two share tables the flag can select, computed once
ShareTable == [rt \in BOOLEAN |-> DistributionPercent(rt)]

(***************************************************************************)
(* The armour table and the tonnage entry.                                 *)
(***************************************************************************)
ArmourNames ==
    <<"Standard", "Ferro-Fibrous", "Light Ferro-Fibrous", "Heavy Ferro-Fibrous",
      "Hardened", "Ballistic Reinforced", "Clan Ferro-Fibrous",
      "Clan Ferro-Lamellor">>

\* points per ton, as the float literals of the table
RAW_ARMOUR_TYPES ==
    [name \in {ArmourNames[i] : i \in 1..Len(ArmourNames)} |->
        CASE name = "Standard"             -> Lit(16, 1)
          [] name = "Ferro-Fibrous"        -> Lit(1792, 100)
          [] name = "Light Ferro-Fibrous"  -> Lit(1696, 100)
          [] name = "Heavy Ferro-Fibrous"  -> Lit(1984, 100)
          [] name = "Hardened"             -> Lit(8, 1)
          [] name = "Ballistic Reinforced" -> Lit(12, 1)
          [] name = "Clan Ferro-Fibrous"   -> Lit(1920, 100)
          [] name = "Clan Ferro-Lamellor"  -> Lit(14, 1)]

\* the dropdown labels stand one to one for the names (ARMOUR_OPTIONS is built
\* from the names in order); the model offers the first MaxArmour of them
ARMOUR_OPTIONS == [i \in 1..Min(MaxArmour, Len(ArmourNames)) |-> ArmourNames[i]]
ARMOUR_LOOKUP(label) == RAW_ARMOUR_TYPES[label]

\* What the tonnage entry can hold, by what float() makes of it:
\*   "text"  anything float() rejects with ValueError (the empty entry too)
\*   "nan"   the text nan: float() accepts it, int() raises ValueError
\*   "inf"   the text inf: float() accepts it, int() raises OverflowError
\*   "num"   the decimal integer v, negative ones included
Text == [kind |-> "text", v |-> 0]
Entries ==
    {Text, [kind |-> "nan", v |-> 0], [kind |-> "inf", v |-> 0]}
    \cup {[kind |-> "num", v |-> n] : n \in (-MaxTons)..MaxTons}

NoDict == <<>>
NoText == [label |-> "", total |-> 0, tons |-> 0, rows |-> <<>>]

\* the (facing, points) lines of a layout, in its iteration order; the weight
\* column (pts / points_per_ton, two decimals) is determined by the points and
\* the armour label of the same text and is not carried
Rows(layout) == [i \in 1..Len(Keys(layout)) |-> <<Keys(layout)[i], layout[Keys(layout)[i]]>>]

\* draw_diagram: the four fixed boxes show layout.get(facing, 0), the turret
\* box is drawn only when the layout has a Turret
Diagram(layout) ==
    [loc \in {"Front", "Left Side", "Right Side", "Rear"}
             \cup (DOMAIN layout \cap {"Turret"}) |-> Get(layout, loc, 0)]

(***************************************************************************)
(* State.                                                                  *)
(*   pc                     "call" before, "return" after a direct call of *)
(*                          the allocator; "idle" in the GUI               *)
(*   total_armour_points, round_each, remove_turret                        *)
(*                          the arguments of the latest allocator call     *)
(*   distribution_percent, raw_allocations, rounded_allocations,           *)
(*   armour_distribution    its locals; rounded_allocations is the dict of *)
(*                          rounded values before any adjustment (line 75  *)
(*                          or lines 86-91), armour_distribution the       *)
(*                          returned dict                                  *)
(*   entry_tonnage, armour_type, save_csv, round_each_location,            *)
(*   check_turret           the widgets' values (check_turret holds the    *)
(*                          BooleanVar remove_turret of line 270)          *)
(*   result_text, canvas, csv_file                                         *)
(*                          what is displayed and what is on disk          *)
(*   messagebox             the dialog the latest run_calculation showed   *)
(***************************************************************************)
VARIABLES pc, total_armour_points, round_each, remove_turret,
          distribution_percent, raw_allocations, rounded_allocations,
          armour_distribution,
          entry_tonnage, armour_type, save_csv, round_each_location,
          check_turret, result_text, canvas, csv_file, messagebox

args   == <<total_armour_points, round_each, remove_turret>>
locals == <<distribution_percent, raw_allocations, rounded_allocations,
            armour_distribution>>
inputs == <<entry_tonnage, armour_type, save_csv, round_each_location,
            check_turret>>
outputs == <<result_text, canvas, csv_file, messagebox>>
vars   == <<pc, args, locals, inputs, outputs>>

\* the widgets as the GUI set-up leaves them (lines 246-284)
WidgetsInit ==
    /\ entry_tonnage = Text
    /\ armour_type = ARMOUR_OPTIONS[1]
    /\ save_csv = FALSE
    /\ round_each_location = FALSE
    /\ check_turret = FALSE
    /\ result_text = NoText
    /\ canvas = NoDict
    /\ csv_file = <<>>
    /\ messagebox = "none"

NoLocals ==
    /\ distribution_percent = NoDict
    /\ raw_allocations = NoDict
    /\ rounded_allocations = NoDict
    /\ armour_distribution = NoDict

\* calculate_armour_distribution(T, re, rt), lines 47-109, start to return:
\* each local is computed once, in the order of the code's statements
calculate_armour_distribution(T, re, rt) ==
    \E pct \in {ShareTable[rt]} :
    \E raw \in {RawAllocations(T, pct)} :
    \E rounded \in {IF re THEN CoarseRounding(raw) ELSE BasicRounding(raw)} :
        /\ total_armour_points' = T
        /\ round_each' = re
        /\ remove_turret' = rt
        /\ distribution_percent' = pct
        /\ raw_allocations' = raw
        /\ rounded_allocations' = rounded
        /\ armour_distribution' = IF re THEN CoarseReconcile(rounded, T)
                                  ELSE DefaultReconcile(rounded, T, pct)

(***************************************************************************)
(* The allocator as a pure function: every non-negative total up to MaxT   *)
(* and every combination of the two flags.                                 *)
(***************************************************************************)
Init ==
    /\ pc = "call"
    /\ total_armour_points \in 0..MaxT
    /\ round_each \in BOOLEAN
    /\ remove_turret \in BOOLEAN
    /\ NoLocals
    /\ WidgetsInit

Allocate ==
    /\ pc = "call"
    /\ pc' = "return"
    /\ calculate_armour_distribution(total_armour_points, round_each, remove_turret)
    /\ UNCHANGED <<inputs, outputs>>

Next == Allocate

Spec == Init /\ [][Next]_vars

(***************************************************************************)
(* The GUI: the user edits the widgets and presses Calculate.              *)
(***************************************************************************)
InitGui ==
    /\ pc = "idle"
    /\ total_armour_points = 0
    /\ round_each = FALSE
    /\ remove_turret = FALSE
    /\ NoLocals
    /\ WidgetsInit

EnterTonnage ==
    /\ \E e \in Entries : entry_tonnage' = e
    /\ UNCHANGED <<pc, args, locals, armour_type, save_csv, round_each_location,
                   check_turret, outputs>>

SelectArmour ==
    /\ \E i \in 1..Len(ARMOUR_OPTIONS) : armour_type' = ARMOUR_OPTIONS[i]
    /\ UNCHANGED <<pc, args, locals, entry_tonnage, save_csv,
                   round_each_location, check_turret, outputs>>

ToggleSaveCsv ==
    /\ save_csv' = ~save_csv
    /\ UNCHANGED <<pc, args, locals, entry_tonnage, armour_type,
                   round_each_location, check_turret, outputs>>

ToggleRoundEach ==
    /\ round_each_location' = ~round_each_location
    /\ UNCHANGED <<pc, args, locals, entry_tonnage, armour_type, save_csv,
                   check_turret, outputs>>

ToggleRemoveTurret ==
    /\ check_turret' = ~check_turret
    /\ UNCHANGED <<pc, args, locals, entry_tonnage, armour_type, save_csv,
                   round_each_location, outputs>>

\* line 117: int(tons * points_per_ton) for a finite tons
TotalArmourPoints(tons, points_per_ton) == PyInt(FMulInt(tons, points_per_ton))

\* run_calculation, lines 113-148
RunCalculation ==
    /\ UNCHANGED <<pc, inputs>>
    /\ \/ \* float() or int() raises ValueError: the except clause reports it
          /\ entry_tonnage.kind \in {"text", "nan"}
          /\ messagebox' = "Input Error"
          /\ UNCHANGED <<args, locals, result_text, canvas, csv_file>>
       \/ \* int(inf) raises OverflowError, which nothing catches
          /\ entry_tonnage.kind = "inf"
          /\ messagebox' = "none"
          /\ UNCHANGED <<args, locals, result_text, canvas, csv_file>>
       \/ /\ entry_tonnage.kind = "num"
          /\ \E tons \in {entry_tonnage.v} :
             \E total \in {TotalArmourPoints(tons, ARMOUR_LOOKUP(armour_type))} :
                 /\ calculate_armour_distribution(
                        total, round_each_location, check_turret)
                 /\ result_text' = [label |-> armour_type, total |-> total,
                                    tons |-> tons,
                                    rows |-> Rows(armour_distribution')]
                 /\ canvas' = Diagram(armour_distribution')
                 /\ IF save_csv
                    THEN /\ csv_file' = Rows(armour_distribution')
                         /\ messagebox' = "Success"
                    ELSE /\ csv_file' = csv_file
                         /\ messagebox' = "none"

NextGui ==
    \/ EnterTonnage
    \/ SelectArmour
    \/ ToggleSaveCsv
    \/ ToggleRoundEach
    \/ ToggleRemoveTurret
    \/ RunCalculation

SpecGui == InitGui /\ [][NextGui]_vars

(***************************************************************************)
(* Properties.                                                             *)
(***************************************************************************)
Returned == pc = "return"
Default == Returned /\ ~round_each
Coarse == Returned /\ round_each

total_rounded == Sum(rounded_allocations)
overage == total_rounded - total_armour_points
TurretSurvives == "Turret" \in DOMAIN rounded_allocations

\* the facings that survive the flag
Surviving(rt) ==
    {"Front", "Left Side", "Right Side", "Rear"}
    \cup (IF rt THEN {} ELSE {"Turret"})

\* the else branch of line 99 with a Turret whose value cannot cover the rest
TurretClamped ==
    /\ TurretSurvives
    /\ overage > rounded_allocations["Rear"]
    /\ overage - rounded_allocations["Rear"] > rounded_allocations["Turret"]

\* the else branch of line 99 with nothing to cover the rest of the overage
Unreconciled ==
    /\ overage > rounded_allocations["Rear"]
    /\ TurretSurvives =>
         overage - rounded_allocations["Rear"] > rounded_allocations["Turret"]

AllMultiplesOf5(d) == \A loc \in DOMAIN d : d[loc] % 5 = 0

\* comparisons of an integer with a non-negative float go through the float's
\* exact floor and ceiling: n <= f iff n <= floor(f), f <= n iff ceil(f) <= n
Twice(f) == [f EXCEPT !.x = @ + 1]
NotMultipleOf5(f) == HasFraction(f) \/ IntPart(f) % 5 # 0
SmallestMultipleOf5AtLeast(v, f) ==
    v % 5 = 0 /\ PyCeil(f) <= v /\ v - 5 < PyCeil(f)
NearestMultipleOf5(v, f) ==
    v % 5 = 0 /\ 2 * v - 5 <= IntPart(Twice(f)) /\ PyCeil(Twice(f)) <= 2 * v + 5

\* C1: in the default policy the returned values sum to exactly the total,
\* for every non-negative total and both values of remove_turret.
C1_DefaultSumEqualsTotal ==
    Default => Sum(armour_distribution) = total_armour_points

\* C2 as stated: in the coarse policy every returned value is divisible by 5.
C2_CoarseAllMultiplesOf5 == Coarse => AllMultiplesOf5(armour_distribution)

\* C2 as amended: in the coarse policy the Left Side and Right Side values are
\* always divisible by 5, and every value is divisible by 5 when the total
\* itself is a multiple of 5.
C2_CoarseMultiplesOf5Amended ==
    Coarse =>
      /\ armour_distribution["Left Side"] % 5 = 0
      /\ armour_distribution["Right Side"] % 5 = 0
      /\ total_armour_points % 5 = 0 => AllMultiplesOf5(armour_distribution)

C2_Witness ==
    /\ Coarse
    /\ total_armour_points % 5 = 0
    /\ total_rounded # total_armour_points

\* C3 as stated: in the coarse policy the returned values sum to the total
\* unless the Turret clamp is triggered; with the turret removed, always.
C3_CoarseSumUnlessTurretClamp ==
    Coarse =>
      /\ Sum(armour_distribution) = total_armour_points \/ TurretClamped
      /\ remove_turret => Sum(armour_distribution) = total_armour_points

\* C3 as amended: in the coarse policy the returned values sum to the total
\* except exactly when the overage exceeds Rear's rounded value and either no
\* Turret survives or the rest of the overage exceeds Turret's rounded value.
C3_CoarseSumAmended ==
    Coarse =>
      (Sum(armour_distribution) = total_armour_points <=> ~Unreconciled)

C3_Witness ==
    /\ Coarse
    /\ TurretSurvives
    /\ overage > rounded_allocations["Rear"]
    /\ Sum(armour_distribution) = total_armour_points

\* C4 as stated: when the Turret is clamped to 0 the returned values sum to
\* less than the total.
C4_ClampUnderAllocates ==
    (Coarse /\ TurretClamped) =>
      Sum(armour_distribution) < total_armour_points

\* C4 as amended: when the Turret is clamped to 0 the returned values sum to
\* more than the total (an over-allocation), never to less.
C4_ClampOverAllocates ==
    (Coarse /\ TurretClamped) =>
      Sum(armour_distribution) > total_armour_points

C4_Witness == Coarse /\ TurretClamped

\* C5: the returned mapping has exactly the surviving facings as keys and
\* every value is an integer >= 0, for all four combinations of the flags.
C5_OutputGuarantee ==
    Returned =>
      /\ DOMAIN armour_distribution = Surviving(remove_turret)
      /\ \A loc \in DOMAIN armour_distribution : armour_distribution[loc] \in Nat

C5_Witness ==
    /\ Coarse
    /\ TurretSurvives
    /\ armour_distribution["Rear"] = 0
    /\ armour_distribution["Turret"] < rounded_allocations["Turret"]

\* C6 as stated: when Front's raw share is not a multiple of 5, the returned
\* coarse Front value is the smallest multiple of 5 that is >= the raw share.
C6_FrontSmallestMultiple ==
    (Coarse /\ NotMultipleOf5(raw_allocations["Front"])) =>
      SmallestMultipleOf5AtLeast(armour_distribution["Front"],
                                 raw_allocations["Front"])

\* C6 as amended: when Front's raw share is not a multiple of 5, Front's
\* rounded value is the smallest multiple of 5 that is >= the raw share; the
\* returned Front value equals it unless the rounded total is below the
\* total, and is then greater by exactly the shortfall.
C6_FrontRoundsUpAmended ==
    (Coarse /\ NotMultipleOf5(raw_allocations["Front"])) =>
      /\ SmallestMultipleOf5AtLeast(rounded_allocations["Front"],
                                    raw_allocations["Front"])
      /\ armour_distribution["Front"] =
           rounded_allocations["Front"]
           + (IF total_rounded < total_armour_points
              THEN total_armour_points - total_rounded ELSE 0)

C6_Witness ==
    /\ Coarse
    /\ NotMultipleOf5(raw_allocations["Front"])
    /\ total_rounded < total_armour_points

\* C7: with remove_turret no Turret key is returned and the four shares used,
\* each a base share plus a quarter of Turret's share, sum to exactly 1.0;
\* without it the five base shares sum to exactly 1.0.  The sums are float
\* sums taken in the dict's order, as sum() of the values would.
C7_SharesSumToOne ==
    Returned =>
      /\ FEq(FSum(distribution_percent), FromInt(1))
      /\ DOMAIN distribution_percent = Surviving(remove_turret)
      /\ remove_turret =>
           /\ "Turret" \notin DOMAIN armour_distribution
           /\ \A loc \in DOMAIN distribution_percent :
                FEq(distribution_percent[loc],
                    FAdd(base_distribution[loc],
                         FDivInt(base_distribution["Turret"], 4)))
      /\ ~remove_turret => distribution_percent = base_distribution

C7_Witness == Returned /\ remove_turret /\ total_armour_points > 0

InvalidInput(e) == e.kind \in {"text", "nan"} \/ (e.kind = "num" /\ e.v < 0)

\* C8: when the tonnage entered is non-numeric or negative, run_calculation
\* shows an error, does not invoke the allocator, and alters no displayed
\* result, diagram or CSV state.
C8_InvalidInputRejected ==
    [][(RunCalculation /\ InvalidInput(entry_tonnage)) =>
         /\ messagebox' = "Input Error"
         /\ UNCHANGED <<args, locals, result_text, canvas, csv_file>>]_vars

\* C9: in the default policy, when the nearest-integer values sum to T - k
\* with k > 0, the result is those values with exactly the first k surviving
\* facings (Front, Left Side, Right Side, Rear, Turret) incremented by 1, and
\* k does not exceed the number of surviving facings.
C9_ShortfallPass ==
    (Default /\ total_rounded < total_armour_points) =>
      LET k    == total_armour_points - total_rounded
          keys == SelectSeq(FacingOrder,
                            LAMBDA loc : loc \in Surviving(remove_turret))
      IN  /\ k <= Len(keys)
          /\ DOMAIN armour_distribution = Surviving(remove_turret)
          /\ \A i \in 1..Len(keys) :
               armour_distribution[keys[i]] =
                 rounded_allocations[keys[i]] + (IF i <= k THEN 1 ELSE 0)

C9_Witness ==
    /\ Default
    /\ total_armour_points - total_rounded = 2
    /\ armour_distribution["Left Side"] = rounded_allocations["Left Side"] + 1

\* C10: in the coarse policy Left Side and Right Side are returned as their
\* nearest-multiple-of-5 roundings, Front is never below its rounding up to
\* 5, Rear and Turret are never above their nearest-multiple-of-5 roundings;
\* Front changes only when the rounded total is below the total, Rear and
\* Turret only when it is above.
C10_CoarseFrame ==
    Coarse =>
      /\ \A loc \in {"Left Side", "Right Side"} :
           /\ armour_distribution[loc] = rounded_allocations[loc]
           /\ NearestMultipleOf5(armour_distribution[loc], raw_allocations[loc])
      /\ armour_distribution["Front"] >= rounded_allocations["Front"]
      /\ PyCeil(raw_allocations["Front"]) <= rounded_allocations["Front"]
      /\ \A loc \in DOMAIN armour_distribution \cap {"Rear", "Turret"} :
           /\ armour_distribution[loc] <= rounded_allocations[loc]
           /\ NearestMultipleOf5(rounded_allocations[loc], raw_allocations[loc])
           /\ armour_distribution[loc] # rounded_allocations[loc] =>
                total_rounded > total_armour_points
      /\ armour_distribution["Front"] # rounded_allocations["Front"] =>
           total_rounded < total_armour_points

C10_Witness ==
    /\ Coarse
    /\ total_rounded > total_armour_points
    /\ armour_distribution["Rear"] < rounded_allocations["Rear"]
    /\ armour_distribution["Rear"] > 0

====
